---- MODULE Spec2Model ----
(***************************************************************************)
(* Model of the cross-chain USDC relay ("bridge") of agent-cli-backend:   *)
(* POST /initiate, GET /status/:bridgeId and the detached executeBridge   *)
(* run (routes/bridge.js, found in src/routes/agents.js lines 234-521).   *)
(* Every await of the code is one step of the model; a store call, a      *)
(* chain call and an oracle fetch may each succeed or throw (cfg.faults   *)
(* tells whether the environment may fail a call at all).                 *)
(***************************************************************************)
EXTENDS Integers, Sequences, FiniteSets, TLC

VARIABLES cfg, now, store, ttl, runs, lastResp

vars == <<cfg, now, store, ttl, runs, lastResp>>

-----------------------------------------------------------------------------
(* Bounds *)

\* number of POST /initiate requests
MaxReqs == 2
\* last value of the millisecond clock
MaxTime == 2
\* oracle poll attempts that are counted
MaxPolls == 1
\* number of POST /initiate requests in the specifications of one client
\* (SpecStatus, SpecRun)
MaxQueried == 1

-----------------------------------------------------------------------------
(* Strings are sequences of one-character strings *)

RECURSIVE Rep(_, _)
Rep(c, n) == IF n = 0 THEN <<>> ELSE <<c>> \o Rep(c, n - 1)

Digits == {"0", "1", "2", "3", "4", "5", "6", "7", "8", "9"}
HexChars == Digits \cup {"a", "b", "c", "d", "e", "f"}

DigitVal(c) ==
  CASE c = "0" -> 0 [] c = "1" -> 1 [] c = "2" -> 2 [] c = "3" -> 3
    [] c = "4" -> 4 [] c = "5" -> 5 [] c = "6" -> 6 [] c = "7" -> 7
    [] c = "8" -> 8 [] c = "9" -> 9

StartsWith0x(s) == Len(s) >= 2 /\ s[1] = "0" /\ s[2] = "x"

\* s.replace(/^0x/, '')
Strip0x(s) == IF StartsWith0x(s) THEN SubSeq(s, 3, Len(s)) ELSE s

\* s.slice(0, n)
Slice0(s, n) == SubSeq(s, 1, IF Len(s) < n THEN Len(s) ELSE n)

AllIn(s, cs) == \A i \in 1..Len(s) : s[i] \in cs

-----------------------------------------------------------------------------
(* Program constants *)

TX_PREFIX_LEN == 16
USDC_DECIMALS == 6
PAD_BYTES == 32
FUJI_DOMAIN == 1

\* keys of CONTRACTS
CONTRACTS == {"sepolia", "baseSepolia", "fuji"}
\* native USDC per chain (addresses by their first six hex characters)
USDC_ADDRESSES ==
  [sepolia |-> "0x1c7D4B", fuji |-> "0x542589", baseSepolia |-> "0x036CbD"]
TOKEN_MESSENGER == "0x8FE6B9"

StatusOrder == <<"initiated", "approved", "deposited", "message_sent",
                 "polling_attestation", "attestation_received", "completed">>
Terminal == {"completed", "failed"}

-----------------------------------------------------------------------------
(* ethers helpers used by the handlers *)

\* ethers.isAddress: /^(0x)?[0-9a-fA-F]{40}$/ (one-case literals carry no checksum)
IsAddress(s) ==
  LET h == Strip0x(s) IN Len(h) = 40 /\ AllIn(h, HexChars)

\* ethers.zeroPadValue(value, 32): getBytes needs "0x" and whole bytes, then
\* left-pads with zero bytes; <<>> stands for the thrown exception
ZeroPadValue(s, n) ==
  IF StartsWith0x(s) /\ AllIn(Strip0x(s), HexChars)
     /\ Len(Strip0x(s)) % 2 = 0 /\ Len(Strip0x(s)) <= 2 * n
  THEN <<"0", "x">> \o Rep("0", 2 * n - Len(Strip0x(s))) \o Strip0x(s)
  ELSE <<>>

RECURSIVE DecValue(_)
DecValue(s) ==
  IF s = <<>> THEN 0
  ELSE 10 * DecValue(SubSeq(s, 1, Len(s) - 1)) + DigitVal(s[Len(s)])

RECURSIVE Pow10(_)
Pow10(n) == IF n = 0 THEN 1 ELSE 10 * Pow10(n - 1)

DotAt(s) ==
  IF \E i \in 1..Len(s) : s[i] = "."
  THEN CHOOSE i \in 1..Len(s) : s[i] = "." /\ \A j \in 1..(i - 1) : s[j] # "."
  ELSE Len(s) + 1

\* ParseUnits that drops the digits after the point
ParseUnits_WholeOnly(s, decimals) ==
  LET whole == SubSeq(s, 1, DotAt(s) - 1)
      frac  == SubSeq(s, DotAt(s) + 1, Len(s))
      extra == SubSeq(frac, decimals + 1, Len(frac))
  IN IF AllIn(whole, Digits) /\ AllIn(frac, Digits)
        /\ Len(whole) + Len(frac) > 0 /\ AllIn(extra, {"0"})
     THEN DecValue(whole) * Pow10(decimals)
     ELSE -1

\* ethers.parseUnits(value, decimals) for unsigned literals:
\* /^([0-9]*)\.?([0-9]*)$/ with at least one digit; digits past `decimals`
\* must be zeros; -1 stands for the thrown exception
ParseUnits(s, decimals) ==
  LET whole == SubSeq(s, 1, DotAt(s) - 1)
      frac  == SubSeq(s, DotAt(s) + 1, Len(s))
      kept  == Slice0(frac, decimals)
      extra == SubSeq(frac, decimals + 1, Len(frac))
  IN IF AllIn(whole, Digits) /\ AllIn(frac, Digits)
        /\ Len(whole) + Len(frac) > 0 /\ AllIn(extra, {"0"})
     THEN DecValue(whole) * Pow10(decimals)
          + DecValue(kept) * Pow10(decimals - Len(kept))
     ELSE -1

\* e.message || String(e)
ErrorText(e) == IF e.message # "" THEN e.message ELSE e.str

-----------------------------------------------------------------------------
(* Inputs *)

H1 == <<"0", "x">> \o Rep("a", 16) \o <<"1">>
\* same first 16 hex characters as H1, another transaction, no "0x"
H2 == Rep("a", 16) \o <<"2">>
HASHES == {H1, H2}

ADDR1 == <<"0", "x">> \o Rep("1", 40)
\* accepted by isAddress, rejected by zeroPadValue
ADDR_NO0X == Rep("2", 40)
ADDR_BAD == <<"0", "x", "1", "2">>

AMT_25 == <<"2", "5", ".", "0", "0">>
AMT_ABC == <<"a", "b", "c">>

GoodBody == [sourceChain |-> "sepolia", paymentTxHash |-> H1, amount |-> AMT_25,
             finalRecipient |-> ADDR1, purpose |-> "hire-fee"]

AMT_HALF == <<"0", ".", "5">>
AMT_7 == <<"7">>
AMT_MICRO == <<"1", ".", "2", "3", "4", "5", "6", "7">>
\* seven decimals
AMT_TOO_FINE == <<"0", ".", "0", "0", "0", "0", "0", "0", "1">>
ADDR_MIXED == <<"0", "x">> \o Rep("a", 20) \o Rep("9", 20)

\* request bodies; a field that is absent from the body is not in its DOMAIN
BODIES ==
  { GoodBody,
    [GoodBody EXCEPT !.paymentTxHash = H2, !.sourceChain = "fuji", !.amount = AMT_ABC],
    [GoodBody EXCEPT !.finalRecipient = ADDR_NO0X],
    [GoodBody EXCEPT !.sourceChain = "mainnet"],
    [GoodBody EXCEPT !.finalRecipient = ADDR_BAD],
    [sourceChain |-> "sepolia", paymentTxHash |-> H1, amount |-> AMT_25,
     purpose |-> "hire-fee"],
    [sourceChain |-> "sepolia", paymentTxHash |-> H1,
     finalRecipient |-> ADDR1, purpose |-> "hire-fee"] }

\* bodies with other amounts, recipients and source chains
MORE_BODIES ==
  { [GoodBody EXCEPT !.amount = a] : a \in {AMT_HALF, AMT_7, AMT_MICRO, AMT_TOO_FINE} }
  \cup { [GoodBody EXCEPT !.sourceChain = "baseSepolia", !.finalRecipient = ADDR_MIXED],
         [GoodBody EXCEPT !.sourceChain = "fuji"] }

\* !x for a field of a request body or of a stored record (the fields
\* sourceChain and purpose are atoms, the others character sequences)
Falsy(rec, f) ==
  \/ f \notin DOMAIN rec
  \/ IF f \in {"sourceChain", "purpose"} THEN rec[f] = "" ELSE rec[f] = <<>>
\* x == null
IsNull(rec, f) == f \notin DOMAIN rec

-----------------------------------------------------------------------------
(* Bridge ids and the store *)

\* `bridge:${Date.now()}:${txPrefix}`
BridgeId(t, paymentTxHash) ==
  <<"bridge", t, Slice0(Strip0x(paymentTxHash), TX_PREFIX_LEN)>>

AllIds == {BridgeId(t, h) : t \in 0..MaxTime, h \in HASHES}

\* :bridgeId values a status query may carry: the ids, and one string that
\* does not start with "bridge:"
MALFORMED_ID == <<"agent", 0, <<"1">>>>
PARAMS == AllIds \cup {MALFORMED_ID}

\* a key the store does not hold has no fields
Empty == <<>>

Exists(st, id) == DOMAIN st[id] # {}
Has(st, id, f) == f \in DOMAIN st[id]

\* redis.hset(key, fields): merges the fields into the hash, creating it
HSet(st, id, fields) == [st EXCEPT ![id] = fields @@ st[id]]

\* redis.expire(key, ttl): sets the time-to-live of an existing key
SetExpire(tl, st, id) == IF Exists(st, id) THEN [tl EXCEPT ![id] = TRUE] ELSE tl

StoreError == [message |-> "store unavailable", str |-> "Error: store unavailable"]

-----------------------------------------------------------------------------
(* Chains and oracle *)

\* the exception of a chain call (at submission or while waiting)
ChainError  == [message |-> "insufficient funds", str |-> "Error: insufficient funds"]
BytesError  == [message |-> "invalid BytesLike value", str |-> "TypeError: invalid BytesLike value"]

MESSAGE_TRANSMITTER == "0xE737e5"
OTHER_CONTRACT == TOKEN_MESSENGER

\* String.prototype.toLowerCase on the addresses that occur in receipts
ToLowerCase(a) ==
  CASE a = "0xE737e5" -> "0xe737e5"
    [] a = "0xE737E5" -> "0xe737e5"
    [] a = "0x8FE6B9" -> "0x8fe6b9"
    [] OTHER -> a

MSG_A == <<"0", "x", "a", "1">>
MSG_B == <<"0", "x", "b", "2">>

DigitOf(n) == CHOOSE c \in Digits : DigitVal(c) = n % 10
\* the message of the burn of run r: every burn emits a message of its own
BurnMessage(r) == MSG_A \o <<"0", DigitOf(r)>>

\* a receipt log: emitter address ("" when the log carries none), the event
\* its topics select, and the payload
MtLog(r)   == [address |-> "0xE737E5", event |-> "MessageSent", message |-> BurnMessage(r)]
OtherLog   == [address |-> OTHER_CONTRACT, event |-> "MessageSent", message |-> MSG_B]
BurnLog    == [address |-> OTHER_CONTRACT, event |-> "DepositForBurn", message |-> <<>>]
NoAddrLog  == [address |-> "", event |-> "MessageSent", message |-> MSG_B]
\* a second MessageSent log of the transmitter
MtLogB     == [address |-> MESSAGE_TRANSMITTER, event |-> "MessageSent", message |-> MSG_B]

\* the logs a confirmed burn of run r may carry; a receipt of a burn that
\* went as the contracts prescribe holds the transmitter's MessageSent log
GOOD_LOGS(r) == { <<BurnLog, MtLog(r)>> }
RECEIPT_LOGS(r) == GOOD_LOGS(r) \cup { <<>>, <<OtherLog>> }
\* receipts of a kind seldom seen: two messages, and a log without emitter
RARE_LOGS(r) == { <<OtherLog, MtLog(r), MtLogB>>, <<NoAddrLog>> }

\* the loop over burnReceipt.logs: <<>> when no log qualifies
RECURSIVE ExtractMessage(_)
ExtractMessage(logs) ==
  IF logs = <<>> THEN <<>>
  ELSE LET log == Head(logs) IN
       IF log.address # "" /\ ToLowerCase(log.address) # ToLowerCase(MESSAGE_TRANSMITTER)
       THEN ExtractMessage(Tail(logs))
       ELSE IF log.event = "MessageSent" THEN log.message
            ELSE ExtractMessage(Tail(logs))

\* ethers.keccak256, as an injective digest of the byte string
Keccak256(bytes) == <<"0", "x", "#">> \o Strip0x(bytes)

\* hashForUrl: the hash without its "0x"
HashForUrl(messageHash) ==
  IF StartsWith0x(messageHash) THEN SubSeq(messageHash, 3, Len(messageHash))
  ELSE messageHash

\* the oracle's attestation of the message with the hash in the url
ATT_OK(hashForUrl) == <<"0", "x", "5", "1">> \o Tail(hashForUrl)
\* the same attestation returned without "0x"
ATT_RAW(hashForUrl) == <<"5", "1">> \o Tail(hashForUrl)

\* what one oracle attempt can yield: the fetch or the JSON parse throws, or
\* a body {status, attestation}
ORACLE_OK(hashForUrl) ==
  [throws |-> FALSE, status |-> "complete", attestation |-> ATT_OK(hashForUrl)]
ORACLE_RAW(hashForUrl) ==
  [throws |-> FALSE, status |-> "complete", attestation |-> ATT_RAW(hashForUrl)]
ORACLE_REPLIES(hashForUrl) ==
  { [throws |-> TRUE,  status |-> "", attestation |-> <<>>],
    [throws |-> FALSE, status |-> "pending_confirmations", attestation |-> <<>>],
    [throws |-> FALSE, status |-> "complete", attestation |-> <<>>],
    ORACLE_OK(hashForUrl) }

-----------------------------------------------------------------------------
(* State *)

\* one entry per request that passed validation: the request handler's
\* position first, then the position of the executeBridge run it launched
NewRun(body, t) ==
  [ id |-> BridgeId(t, body.paymentTxHash),
    state |-> [sourceChain |-> body.sourceChain, paymentTxHash |-> body.paymentTxHash,
               amount |-> body.amount, finalRecipient |-> body.finalRecipient,
               purpose |-> body.purpose, status |-> "initiated", createdAt |-> t],
    pc |-> "i_hset",
    resp |-> 0,
    readStatus |-> "",
    sourceChain |-> "",
    amountWei |-> -1,
    mintRecipient |-> <<>>,
    logs |-> <<>>,
    messageBytes |-> <<>>,
    messageHash |-> <<>>,
    attestation |-> <<>>,
    polls |-> 0,
    err |-> "",
    txs |-> <<>>,
    rejected |-> FALSE ]

\* the entry of a request that was answered before any await
NO_ID == <<"none", 0, <<>>>>
Answered(code) ==
  [NewRun(GoodBody, 0) EXCEPT !.id = NO_ID, !.state = <<>>, !.pc = "done", !.resp = code]

\* lastResp is the reply a status query sent in the step just taken
NoReply == [code |-> 0]
Quiet == lastResp' = NoReply

Init ==
  /\ cfg \in [redis : BOOLEAN, relayerKey : BOOLEAN, faults : {TRUE}]
  /\ now = 0
  /\ store = [id \in AllIds |-> Empty]
  /\ ttl = [id \in AllIds |-> FALSE]
  /\ runs = <<>>
  /\ lastResp = NoReply

\* the locals of a run that has returned are gone
Returned ==
  [ state |-> <<>>, readStatus |-> "", sourceChain |-> "",
    amountWei |-> -1, mintRecipient |-> <<>>,
    logs |-> <<>>, messageBytes |-> <<>>, messageHash |-> <<>>,
    attestation |-> <<>>, polls |-> 0, err |-> "" ]

Set(r, fields) ==
  [runs EXCEPT ![r] = IF "pc" \in DOMAIN fields /\ fields.pc = "done"
                      THEN fields @@ Returned @@ runs[r]
                      ELSE fields @@ runs[r]]

\* the clock advances; a millisecond in which nothing was stamped is not
\* told apart from the one before it
Tick ==
  /\ now < MaxTime
  /\ \E r \in 1..Len(runs) : runs[r].id[1] = "bridge" /\ runs[r].id[2] = now
  /\ now' = now + 1
  /\ UNCHANGED <<cfg, store, ttl, runs>> /\ Quiet

\* the store drops a key whose time-to-live has run out
KeyExpires(id) ==
  /\ ttl[id]
  /\ store' = [store EXCEPT ![id] = Empty]
  /\ ttl' = [ttl EXCEPT ![id] = FALSE]
  /\ UNCHANGED <<cfg, now, runs>> /\ Quiet

-----------------------------------------------------------------------------
(* POST /initiate *)

Invalid(body) ==
  \/ Falsy(body, "sourceChain") \/ Falsy(body, "paymentTxHash")
  \/ IsNull(body, "amount") \/ Falsy(body, "finalRecipient")
  \/ Falsy(body, "purpose")
  \/ body.sourceChain \notin CONTRACTS
  \/ ~IsAddress(body.finalRecipient)

\* the handler up to its first await: configuration and validation checks,
\* id and initial state
InitiateReceive(body) ==
  /\ Len(runs) < MaxReqs
  /\ UNCHANGED <<cfg, now, store, ttl>> /\ Quiet
  /\ IF ~cfg.redis THEN runs' = Append(runs, Answered(503))
     ELSE IF Invalid(body) THEN runs' = Append(runs, Answered(400))
     ELSE runs' = Append(runs, NewRun(body, now))

\* await redis.hset(bridgeId, state)
InitiateHset(r) ==
  /\ r \in 1..Len(runs) /\ runs[r].pc = "i_hset"
  /\ UNCHANGED <<cfg, now, ttl>> /\ Quiet
  /\ \/ /\ store' = HSet(store, runs[r].id, runs[r].state)
        /\ runs' = Set(r, [pc |-> "i_expire"])
     \/ /\ cfg.faults
        /\ runs' = Set(r, [pc |-> "done", resp |-> 500])
        /\ UNCHANGED store

\* the part of executeBridge that runs inside the caller, up to its first await
Launch(r) ==
  IF ~cfg.relayerKey THEN [pc |-> "w_refuse", err |-> "Relayer not configured"]
  ELSE [pc |-> "delay"]

\* await redis.expire(...); then the run is launched and the 200 is sent
InitiateExpire(r) ==
  /\ r \in 1..Len(runs) /\ runs[r].pc = "i_expire"
  /\ UNCHANGED <<cfg, now, store>> /\ Quiet
  /\ \/ /\ ttl' = SetExpire(ttl, store, runs[r].id)
        /\ runs' = Set(r, Launch(r) @@ [resp |-> 200])
     \/ /\ cfg.faults
        /\ runs' = Set(r, [pc |-> "done", resp |-> 500])
        /\ UNCHANGED ttl

-----------------------------------------------------------------------------
(* GET /status/:bridgeId *)

\* GetStatus without the test of the "bridge:" prefix
GetStatus_NoPrefixTest(param) ==
  /\ UNCHANGED <<cfg, now, store, ttl, runs>>
  /\ IF ~cfg.redis THEN lastResp' = [code |-> 503]
     ELSE \/ lastResp' = IF param[1] = "bridge" /\ Exists(store, param)
                         THEN [code |-> 200, id |-> param, body |-> store[param]]
                         ELSE [code |-> 404, id |-> param]
          \/ cfg.faults /\ lastResp' = [code |-> 500]

GetStatus(param) ==
  /\ UNCHANGED <<cfg, now, store, ttl, runs>>
  /\ IF ~cfg.redis THEN lastResp' = [code |-> 503]
     ELSE IF param[1] # "bridge" THEN lastResp' = [code |-> 400]
     ELSE \/ lastResp' = IF Exists(store, param)
                         THEN [code |-> 200, id |-> param, body |-> store[param]]
                         ELSE [code |-> 404, id |-> param]
          \/ cfg.faults /\ lastResp' = [code |-> 500]

-----------------------------------------------------------------------------
(* executeBridge *)

InRun(r, p) == r \in 1..Len(runs) /\ runs[r].pc = p

\* a store write of the run: it lands and the run goes on with `next`, or it
\* throws inside the try block and the run goes to the catch clause
TryWrite(r, fields, next) ==
  \/ /\ store' = HSet(store, runs[r].id, fields)
     /\ runs' = Set(r, next)
  \/ /\ cfg.faults
     /\ runs' = Set(r, [pc |-> "catch", err |-> ErrorText(StoreError)])
     /\ UNCHANGED store

\* a store write wrapped in its own try { } catch (_) {}; the run returns
GuardedWrite(r, fields) ==
  \/ /\ store' = HSet(store, runs[r].id, fields)
     /\ runs' = Set(r, [pc |-> "done"])
  \/ /\ cfg.faults
     /\ runs' = Set(r, [pc |-> "done"])
     /\ UNCHANGED store

\* the three refusals of a run (no relayer key, missing bridge params,
\* unsupported source chain): a guarded write of failed, then return
RunRefuse(r) ==
  /\ InRun(r, "w_refuse")
  /\ GuardedWrite(r, [status |-> "failed", error |-> runs[r].err])
  /\ UNCHANGED <<cfg, now, ttl>> /\ Quiet

\* AfterRead with the exception of a conversion handed to the request's reply
AfterRead_Propagates(data) ==
  IF Falsy(data, "sourceChain") \/ IsNull(data, "amount") \/ Falsy(data, "finalRecipient")
  THEN [pc |-> "w_refuse", err |-> "Missing bridge params"]
  ELSE IF data.sourceChain \notin CONTRACTS \/ data.sourceChain \notin DOMAIN USDC_ADDRESSES
  THEN [pc |-> "w_refuse", err |-> "Unsupported source chain"]
  ELSE IF ParseUnits(data.amount, USDC_DECIMALS) = -1
          \/ ZeroPadValue(data.finalRecipient, PAD_BYTES) = <<>>
  THEN [pc |-> "done", rejected |-> TRUE, resp |-> 500]
  ELSE [pc |-> "w_approved",
        sourceChain |-> data.sourceChain,
        amountWei |-> ParseUnits(data.amount, USDC_DECIMALS),
        mintRecipient |-> ZeroPadValue(data.finalRecipient, PAD_BYTES)]

\* AfterRead that fills in defaults for the bridge params the record lacks
AfterRead_Defaults(data) ==
  IF Falsy(data, "sourceChain") \/ IsNull(data, "amount") \/ Falsy(data, "finalRecipient")
  THEN [pc |-> "w_approved", sourceChain |-> "sepolia", amountWei |-> 0,
        mintRecipient |-> ZeroPadValue(<<"0", "x">>, PAD_BYTES)]
  ELSE IF data.sourceChain \notin CONTRACTS \/ data.sourceChain \notin DOMAIN USDC_ADDRESSES
  THEN [pc |-> "w_refuse", err |-> "Unsupported source chain"]
  ELSE IF ParseUnits(data.amount, USDC_DECIMALS) = -1
          \/ ZeroPadValue(data.finalRecipient, PAD_BYTES) = <<>>
  THEN [pc |-> "done", rejected |-> TRUE]
  ELSE [pc |-> "w_approved",
        sourceChain |-> data.sourceChain,
        amountWei |-> ParseUnits(data.amount, USDC_DECIMALS),
        mintRecipient |-> ZeroPadValue(data.finalRecipient, PAD_BYTES)]

\* what follows the read of a non-empty record, up to the next await
AfterRead(data) ==
  IF Falsy(data, "sourceChain") \/ IsNull(data, "amount") \/ Falsy(data, "finalRecipient")
  THEN [pc |-> "w_refuse", err |-> "Missing bridge params"]
  ELSE IF data.sourceChain \notin CONTRACTS \/ data.sourceChain \notin DOMAIN USDC_ADDRESSES
  THEN [pc |-> "w_refuse", err |-> "Unsupported source chain"]
  ELSE IF ParseUnits(data.amount, USDC_DECIMALS) = -1
          \/ ZeroPadValue(data.finalRecipient, PAD_BYTES) = <<>>
  THEN [pc |-> "done", rejected |-> TRUE]
  ELSE [pc |-> "w_approved",
        sourceChain |-> data.sourceChain,
        amountWei |-> ParseUnits(data.amount, USDC_DECIMALS),
        mintRecipient |-> ZeroPadValue(data.finalRecipient, PAD_BYTES)]

\* the 100 ms delay has passed; data = await redis.hgetall(bridgeId)
RunRead(r) ==
  /\ InRun(r, "delay")
  /\ now > runs[r].id[2]
  /\ UNCHANGED <<cfg, now, store, ttl>> /\ Quiet
  /\ \/ cfg.faults /\ runs' = Set(r, [pc |-> "done"])
     \/ runs' = IF ~Exists(store, runs[r].id)
                THEN Set(r, [pc |-> "done"])
                ELSE Set(r, AfterRead(store[runs[r].id])
                            @@ [readStatus |-> store[runs[r].id].status])

\* a transaction of the relayer: the chain of its provider, the contract,
\* the function and its arguments
Tx(chain, to, fn, args) == [chain |-> chain, to |-> to, fn |-> fn, args |-> args]

\* a call that submits a transaction: it is submitted, or the call throws
Submit(r, tx, next) ==
  \/ runs' = Set(r, [pc |-> next, txs |-> Append(runs[r].txs, tx)])
  \/ cfg.faults /\ runs' = Set(r, [pc |-> "catch", err |-> ErrorText(ChainError)])

\* 1. Approve
RunWriteApproved(r) ==
  /\ InRun(r, "w_approved")
  /\ TryWrite(r, [status |-> "approved"], [pc |-> "approve"])
  /\ UNCHANGED <<cfg, now, ttl>> /\ Quiet

\* a run waits for the confirmation of the transaction it submitted last
Pending(r) == runs[r].pc \in {"approve_wait", "burn_wait", "receive_wait"}
PendingTx(r) == runs[r].txs[Len(runs[r].txs)]

\* RunApprove behind a lock per chain: the call does not start while another
\* run has an unconfirmed transaction on the source chain
RunApprove_Serialized(r) ==
  /\ InRun(r, "approve")
  /\ ~ \E q \in 1..Len(runs) :
         q # r /\ Pending(q) /\ PendingTx(q).chain = runs[r].sourceChain
  /\ Submit(r, Tx(runs[r].sourceChain, USDC_ADDRESSES[runs[r].sourceChain], "approve",
                  <<TOKEN_MESSENGER, runs[r].amountWei>>),
            "approve_wait")
  /\ UNCHANGED <<cfg, now, store, ttl>> /\ Quiet

RunApprove(r) ==
  /\ InRun(r, "approve")
  /\ Submit(r, Tx(runs[r].sourceChain, USDC_ADDRESSES[runs[r].sourceChain], "approve",
                  <<TOKEN_MESSENGER, runs[r].amountWei>>),
            "approve_wait")
  /\ UNCHANGED <<cfg, now, store, ttl>> /\ Quiet

\* RunApproveWait with a deadline of its own, after which the run marks the
\* record failed
RunApproveWait_Deadline(r) ==
  /\ InRun(r, "approve_wait")
  /\ \/ runs' = Set(r, [pc |-> "w_deposited"]) /\ UNCHANGED store
     \/ /\ cfg.faults
        /\ runs' = Set(r, [pc |-> "catch", err |-> ErrorText(ChainError)])
        /\ UNCHANGED store
     \/ /\ store' = HSet(store, runs[r].id,
                         [status |-> "failed", error |-> "Confirmation timeout"])
        /\ runs' = Set(r, [pc |-> "done"])
  /\ UNCHANGED <<cfg, now, ttl>> /\ Quiet

RunApproveWait(r) ==
  /\ InRun(r, "approve_wait")
  /\ \/ runs' = Set(r, [pc |-> "w_deposited"])
     \/ cfg.faults /\ runs' = Set(r, [pc |-> "catch", err |-> ErrorText(ChainError)])
  /\ UNCHANGED <<cfg, now, store, ttl>> /\ Quiet

\* RunWriteDeposited where the write is issued but not awaited
RunWriteDeposited_NotAwaited(r) ==
  /\ InRun(r, "w_deposited")
  /\ runs' = Set(r, [pc |-> "burn"])
  /\ UNCHANGED <<cfg, now, store, ttl>> /\ Quiet

\* 2. Burn
RunWriteDeposited(r) ==
  /\ InRun(r, "w_deposited")
  /\ TryWrite(r, [status |-> "deposited"], [pc |-> "burn"])
  /\ UNCHANGED <<cfg, now, ttl>> /\ Quiet

RunBurn(r) ==
  /\ InRun(r, "burn")
  /\ Submit(r, Tx(runs[r].sourceChain, TOKEN_MESSENGER, "depositForBurn",
                  <<runs[r].amountWei, FUJI_DOMAIN, runs[r].mintRecipient,
                    USDC_ADDRESSES[runs[r].sourceChain]>>),
            "burn_wait")
  /\ UNCHANGED <<cfg, now, store, ttl>> /\ Quiet

RunBurnWait(r) ==
  /\ InRun(r, "burn_wait")
  /\ \/ \E logs \in (IF cfg.faults THEN RECEIPT_LOGS(r) ELSE GOOD_LOGS(r)) :
          runs' = Set(r, [pc |-> "w_message_sent", logs |-> logs])
     \/ /\ cfg.faults
        /\ runs' = Set(r, [pc |-> "catch", err |-> ErrorText(ChainError)])
  /\ UNCHANGED <<cfg, now, store, ttl>> /\ Quiet

\* the burn is confirmed with a receipt of a kind seldom seen
RunBurnWaitRare(r) ==
  /\ InRun(r, "burn_wait")
  /\ \E logs \in RARE_LOGS(r) : runs' = Set(r, [pc |-> "w_message_sent", logs |-> logs])
  /\ UNCHANGED <<cfg, now, store, ttl>> /\ Quiet

BurnHash(r) == <<"burn", r>>
ReceiveHash(r) == <<"receive", r>>

\* RunWriteMessageSent with the scan done before the write, and its result
\* written along with message_sent
RunWriteMessageSent_WithBytes(r) ==
  /\ InRun(r, "w_message_sent")
  /\ LET messageBytes == ExtractMessage(runs[r].logs) IN
     TryWrite(r, [status |-> "message_sent", depositForBurnTx |-> BurnHash(r),
                  messageBytes |-> messageBytes,
                  messageHash |-> Keccak256(messageBytes)],
              IF messageBytes = <<>>
              THEN [pc |-> "w_nomessage", logs |-> <<>>]
              ELSE [pc |-> "w_polling", logs |-> <<>>,
                    messageBytes |-> messageBytes,
                    messageHash |-> Keccak256(messageBytes)])
  /\ UNCHANGED <<cfg, now, ttl>> /\ Quiet

\* the write of message_sent, then 3. the scan of the receipt's logs
RunWriteMessageSent(r) ==
  /\ InRun(r, "w_message_sent")
  /\ LET messageBytes == ExtractMessage(runs[r].logs) IN
     TryWrite(r, [status |-> "message_sent", depositForBurnTx |-> BurnHash(r)],
              IF messageBytes = <<>>
              THEN [pc |-> "w_nomessage", logs |-> <<>>]
              ELSE [pc |-> "w_polling", logs |-> <<>>,
                    messageBytes |-> messageBytes,
                    messageHash |-> Keccak256(messageBytes)])
  /\ UNCHANGED <<cfg, now, ttl>> /\ Quiet

RunNoMessage(r) ==
  /\ InRun(r, "w_nomessage")
  /\ TryWrite(r, [status |-> "failed",
                  error |-> "Could not find MessageSent event in burn receipt"],
              [pc |-> "done"])
  /\ UNCHANGED <<cfg, now, ttl>> /\ Quiet

RunWritePolling(r) ==
  /\ InRun(r, "w_polling")
  /\ TryWrite(r, [messageBytes |-> runs[r].messageBytes,
                  messageHash |-> runs[r].messageHash,
                  status |-> "polling_attestation"],
              [pc |-> "poll"])
  /\ UNCHANGED <<cfg, now, ttl>> /\ Quiet

-----------------------------------------------------------------------------
(* pollAttestation *)

\* PollReply where a fetch that throws ends the polling with an exception
PollReply_ThrowIsFatal(r, reply) ==
  /\ InRun(r, "poll")
  /\ IF reply.throws
     THEN runs' = Set(r, [pc |-> "catch", err |-> "fetch failed"])
     ELSE IF reply.status = "complete" /\ reply.attestation # <<>>
     THEN runs' = Set(r, [pc |-> "w_attestation", attestation |-> reply.attestation])
     ELSE /\ runs[r].polls < MaxPolls
          /\ runs' = Set(r, [polls |-> runs[r].polls + 1])
  /\ UNCHANGED <<cfg, now, store, ttl>> /\ Quiet

\* one pass of the loop with the oracle's reply: a fetch that throws, or a
\* reply that is not a completed attestation, leads to the next pass
PollReply(r, reply) ==
  /\ InRun(r, "poll")
  /\ IF ~reply.throws /\ reply.status = "complete" /\ reply.attestation # <<>>
     THEN runs' = Set(r, [pc |-> "w_attestation", attestation |-> reply.attestation])
     ELSE /\ runs[r].polls < MaxPolls
          /\ runs' = Set(r, [polls |-> runs[r].polls + 1])
  /\ UNCHANGED <<cfg, now, store, ttl>> /\ Quiet

PollAttempt(r) ==
  /\ InRun(r, "poll")
  /\ \E reply \in (IF cfg.faults THEN ORACLE_REPLIES(HashForUrl(runs[r].messageHash))
                   ELSE {ORACLE_OK(HashForUrl(runs[r].messageHash))}) :
       PollReply(r, reply)

\* the oracle returns the attestation without "0x"
PollRaw(r) ==
  /\ InRun(r, "poll")
  /\ PollReply(r, ORACLE_RAW(HashForUrl(runs[r].messageHash)))

\* Date.now() >= deadline at the head of the loop, which is first tested
\* right after the deadline is computed: pollAttestation returns null
PollDeadline(r) ==
  /\ InRun(r, "poll")
  /\ runs[r].polls > 0
  /\ runs' = Set(r, [pc |-> "w_timeout"])
  /\ UNCHANGED <<cfg, now, store, ttl>> /\ Quiet

-----------------------------------------------------------------------------
(* executeBridge, continued *)

ATTESTATION_TIMEOUT_TEXT ==
  "Attestation timeout (15 min). You can retry receiveMessage later with same messageHash."

RunTimeout(r) ==
  /\ InRun(r, "w_timeout")
  /\ TryWrite(r, [status |-> "failed", error |-> ATTESTATION_TIMEOUT_TEXT],
              [pc |-> "done"])
  /\ UNCHANGED <<cfg, now, ttl>> /\ Quiet

\* the write of attestation_received; then attestationBytes, where
\* ethers.getBytes throws on a string without "0x"
RunWriteAttestation(r) ==
  /\ InRun(r, "w_attestation")
  /\ TryWrite(r, [attestation |-> runs[r].attestation, status |-> "attestation_received"],
              IF StartsWith0x(runs[r].attestation)
              THEN [pc |-> "receive"]
              ELSE [pc |-> "catch", err |-> ErrorText(BytesError)])
  /\ UNCHANGED <<cfg, now, ttl>> /\ Quiet

\* RunReceive with the message and the attestation read back from the record
RunReceive_FromRecord(r) ==
  /\ InRun(r, "receive")
  /\ Submit(r, Tx("fuji", MESSAGE_TRANSMITTER, "receiveMessage",
                  <<store[runs[r].id].messageBytes, store[runs[r].id].attestation>>),
            "receive_wait")
  /\ UNCHANGED <<cfg, now, store, ttl>> /\ Quiet

\* 5. Mint on Fuji
RunReceive(r) ==
  /\ InRun(r, "receive")
  /\ Submit(r, Tx("fuji", MESSAGE_TRANSMITTER, "receiveMessage",
                  <<runs[r].messageBytes, runs[r].attestation>>),
            "receive_wait")
  /\ UNCHANGED <<cfg, now, store, ttl>> /\ Quiet

RunReceiveWait(r) ==
  /\ InRun(r, "receive_wait")
  /\ \/ runs' = Set(r, [pc |-> "w_completed"])
     \/ cfg.faults /\ runs' = Set(r, [pc |-> "catch", err |-> ErrorText(ChainError)])
  /\ UNCHANGED <<cfg, now, store, ttl>> /\ Quiet

RunWriteCompleted(r) ==
  /\ InRun(r, "w_completed")
  /\ TryWrite(r, [status |-> "completed", receiveMessageTx |-> ReceiveHash(r),
                  completedAt |-> now],
              [pc |-> "done"])
  /\ UNCHANGED <<cfg, now, ttl>> /\ Quiet

\* RunCatch with a fixed text in place of the exception's message
RunCatch_FixedText(r) ==
  /\ InRun(r, "catch")
  /\ GuardedWrite(r, [status |-> "failed", error |-> "Bridge failed"])
  /\ UNCHANGED <<cfg, now, ttl>> /\ Quiet

\* catch (e): the write of failed, itself guarded
RunCatch(r) ==
  /\ InRun(r, "catch")
  /\ GuardedWrite(r, [status |-> "failed", error |-> runs[r].err])
  /\ UNCHANGED <<cfg, now, ttl>> /\ Quiet

-----------------------------------------------------------------------------

\* the steps of the clock, of the pending requests and of the runs
Steps ==
  \/ Tick
  \/ \E r \in 1..MaxReqs : InitiateHset(r)
  \/ \E r \in 1..MaxReqs : InitiateExpire(r)
  \/ \E r \in 1..MaxReqs : RunRefuse(r)
  \/ \E r \in 1..MaxReqs : RunRead(r)
  \/ \E r \in 1..MaxReqs : RunWriteApproved(r)
  \/ \E r \in 1..MaxReqs : RunApprove(r)
  \/ \E r \in 1..MaxReqs : RunApproveWait(r)
  \/ \E r \in 1..MaxReqs : RunWriteDeposited(r)
  \/ \E r \in 1..MaxReqs : RunBurn(r)
  \/ \E r \in 1..MaxReqs : RunBurnWait(r)
  \/ \E r \in 1..MaxReqs : RunWriteMessageSent(r)
  \/ \E r \in 1..MaxReqs : RunNoMessage(r)
  \/ \E r \in 1..MaxReqs : RunWritePolling(r)
  \/ \E r \in 1..MaxReqs : PollAttempt(r)
  \/ \E r \in 1..MaxReqs : PollDeadline(r)
  \/ \E r \in 1..MaxReqs : RunTimeout(r)
  \/ \E r \in 1..MaxReqs : RunWriteAttestation(r)
  \/ \E r \in 1..MaxReqs : RunReceive(r)
  \/ \E r \in 1..MaxReqs : RunReceiveWait(r)
  \/ \E r \in 1..MaxReqs : RunWriteCompleted(r)
  \/ \E r \in 1..MaxReqs : RunCatch(r)

Next ==
  \/ \E body \in BODIES : InitiateReceive(body)
  \/ Steps

Spec == Init /\ [][Next]_vars

-----------------------------------------------------------------------------
(* Specifications with status queries and with key expiry *)

\* a client asks for the status of the id it was given
QueryReturnedId(r) == r \in 1..Len(runs) /\ runs[r].resp = 200 /\ GetStatus(runs[r].id)

NextApi == Next \/ \E r \in 1..MaxReqs : QueryReturnedId(r)
SpecApi == Init /\ [][NextApi]_vars

NextExpiry == Next \/ \E id \in AllIds : KeyExpires(id)
SpecExpiry == Init /\ [][NextExpiry]_vars

\* A server with store and relayer key, in an environment that fails no
\* call: the steps that remain, taken fairly. (The other steps of Next are
\* never enabled there; a request stamped at the last value of the clock
\* could not see its delay pass.)
InitLive ==
  /\ cfg = [redis |-> TRUE, relayerKey |-> TRUE, faults |-> FALSE]
  /\ now = 0
  /\ store = [id \in AllIds |-> Empty]
  /\ ttl = [id \in AllIds |-> FALSE]
  /\ runs = <<>>
  /\ lastResp = NoReply

InitiateLive(body) == now < MaxTime /\ InitiateReceive(body)

StepsLive ==
  \/ Tick
  \/ \E r \in 1..MaxReqs : InitiateHset(r)
  \/ \E r \in 1..MaxReqs : InitiateExpire(r)
  \/ \E r \in 1..MaxReqs : RunRead(r)
  \/ \E r \in 1..MaxReqs : RunWriteApproved(r)
  \/ \E r \in 1..MaxReqs : RunApprove(r)
  \/ \E r \in 1..MaxReqs : RunApproveWait(r)
  \/ \E r \in 1..MaxReqs : RunWriteDeposited(r)
  \/ \E r \in 1..MaxReqs : RunBurn(r)
  \/ \E r \in 1..MaxReqs : RunBurnWait(r)
  \/ \E r \in 1..MaxReqs : RunWriteMessageSent(r)
  \/ \E r \in 1..MaxReqs : RunWritePolling(r)
  \/ \E r \in 1..MaxReqs : PollAttempt(r)
  \/ \E r \in 1..MaxReqs : RunWriteAttestation(r)
  \/ \E r \in 1..MaxReqs : RunReceive(r)
  \/ \E r \in 1..MaxReqs : RunReceiveWait(r)
  \/ \E r \in 1..MaxReqs : RunWriteCompleted(r)

NextLive ==
  \/ \E body \in BODIES : InitiateLive(body)
  \/ StepsLive

SpecLive == InitLive /\ [][NextLive]_vars /\ WF_vars(StepsLive)

\* status queries and key expiry around the requests of one client
InitiateQueried(body) == Len(runs) < MaxQueried /\ InitiateReceive(body)

NextStatus ==
  \/ \E body \in BODIES : InitiateQueried(body)
  \/ Steps
  \/ \E id \in AllIds : KeyExpires(id)
  \/ \E param \in PARAMS : GetStatus(param)
SpecStatus == Init /\ [][NextStatus]_vars

\* one request out of more bodies, whose run also meets the receipts and
\* the oracle reply that are seldom seen, and key expiry
NextRun ==
  \/ \E body \in BODIES \cup MORE_BODIES : InitiateQueried(body)
  \/ Steps
  \/ \E r \in 1..MaxReqs : RunBurnWaitRare(r)
  \/ \E r \in 1..MaxReqs : PollRaw(r)
  \/ \E id \in AllIds : KeyExpires(id)
SpecRun == Init /\ [][NextRun]_vars

-----------------------------------------------------------------------------
(* Vocabulary of the properties *)

Run(r) == runs[r]
RunIds == 1..Len(runs)

\* the request was answered 200: its run was launched
Launched(r) == runs[r].resp = 200

Submitted(r, tx) == \E i \in 1..Len(runs[r].txs) : runs[r].txs[i].fn = tx

StatusOf(st, id) == st[id].status

\* the edges of the state table
Edge(a, b) ==
  \/ b = "failed" /\ a \notin Terminal
  \/ \E i \in 1..(Len(StatusOrder) - 1) : StatusOrder[i] = a /\ StatusOrder[i + 1] = b

ChainPcs == {"approve", "approve_wait", "burn", "burn_wait", "receive", "receive_wait"}

HasMessage(st, id) == Has(st, id, "messageBytes") /\ Has(st, id, "messageHash")

-----------------------------------------------------------------------------
(* C1 .. C10 *)

\* C1: every change of a record's status follows an edge of the state table
\* (one status forward, or a jump from a non-terminal status to failed).
C1_StatusFollowsEdges ==
  [][\A id \in AllIds :
       (Has(store, id, "status") /\ Has(store', id, "status")
        /\ StatusOf(store', id) # StatusOf(store, id))
       => Edge(StatusOf(store, id), StatusOf(store', id))]_vars

\* C2: for every bridge id at most one run is ever launched, so at most one
\* depositForBurn and at most one receiveMessage is submitted for it.
C2_OneRunPerId ==
  \A id \in AllIds :
    /\ Cardinality({r \in RunIds : runs[r].id = id /\ Launched(r)}) <= 1
    /\ Cardinality({r \in RunIds : runs[r].id = id /\ Submitted(r, "depositForBurn")}) <= 1
    /\ Cardinality({r \in RunIds : runs[r].id = id /\ Submitted(r, "receiveMessage")}) <= 1

\* C3: any two accepted POST /initiate requests return different bridge ids.
C3_IdsAreUnique ==
  \A r1, r2 \in RunIds :
    (r1 # r2 /\ Launched(r1) /\ Launched(r2)) => runs[r1].id # runs[r2].id

\* C4: the promise of a launched run never rejects, and a run that has
\* returned leaves its record terminal: completed, or failed with a
\* non-empty error.
C4_FailuresArePersisted ==
  \A r \in RunIds :
    /\ ~runs[r].rejected
    /\ (Launched(r) /\ runs[r].pc = "done") =>
         /\ Has(store, runs[r].id, "status")
         /\ \/ StatusOf(store, runs[r].id) = "completed"
            \/ /\ StatusOf(store, runs[r].id) = "failed"
               /\ Has(store, runs[r].id, "error")
               /\ store[runs[r].id].error # ""

\* C5: when approve, depositForBurn or receiveMessage throws (at submission or
\* while waiting), the run goes to its catch clause with the exception's
\* message and without a new transaction; its one remaining step is the write
\* of status failed with that message (a write the store may refuse), after
\* which the run has returned: no further transaction, no retry.
C5_ChainFailureStopsRun ==
  [][\A r \in RunIds :
       /\ (runs[r].pc \in ChainPcs /\ runs'[r].pc = "catch") =>
            /\ runs'[r].err = ChainError.message
            /\ runs'[r].txs = runs[r].txs
            /\ store' = store
       /\ (runs[r].pc = "catch" /\ runs'[r] # runs[r]) =>
            /\ runs'[r].pc = "done"
            /\ runs'[r].txs = runs[r].txs
            /\ store'[runs[r].id] # store[runs[r].id] =>
                 /\ StatusOf(store', runs[r].id) = "failed"
                 /\ store'[runs[r].id].error = runs[r].err
       /\ runs[r].pc = "done" => runs'[r] = runs[r]]_vars

\* a chain call of some run threw, the run wrote failed with the exception's
\* message and returned
C5_Witness ==
  \E r \in RunIds :
    /\ runs[r].pc = "done" /\ Launched(r) /\ Submitted(r, "approve")
    /\ Has(store, runs[r].id, "error")
    /\ StatusOf(store, runs[r].id) = "failed"
    /\ store[runs[r].id].error = ChainError.message

\* C6: a run that finds its record already completed or failed submits no
\* transaction and writes nothing.
C6_TerminalRecordIsNoOp ==
  [][\A r \in RunIds :
       (runs[r].readStatus \in Terminal /\ runs'[r] # runs[r])
       => (store' = store /\ runs'[r].txs = runs[r].txs)]_vars

\* C7: once a record is completed or failed, none of its fields changes.
C7_TerminalRecordIsFrozen ==
  [][\A id \in AllIds :
       (Has(store, id, "status") /\ StatusOf(store, id) \in Terminal)
       => store'[id] = store[id]]_vars

C9_AttestationIffReceived ==
  \A id \in AllIds :
    (Has(store, id, "status") /\ StatusOf(store, id) # "failed") =>
      (Has(store, id, "attestation") <=>
         StatusOf(store, id) \in {"attestation_received", "completed"})

\* C10: in every record, receiveMessageTx is present exactly when status is
\* completed.
C10_ReceiveTxIffCompleted ==
  \A id \in AllIds :
    Exists(store, id) =>
      (Has(store, id, "receiveMessageTx") <=>
         (Has(store, id, "status") /\ StatusOf(store, id) = "completed"))

-----------------------------------------------------------------------------
(* C11 .. C20 *)

\* a request body that is to be refused with 400: a required field missing,
\* fuji or an unknown network as source, a malformed finalRecipient
RefusedBody(b) ==
  IF Falsy(b, "sourceChain") \/ Falsy(b, "paymentTxHash") \/ IsNull(b, "amount")
     \/ Falsy(b, "finalRecipient") \/ Falsy(b, "purpose")
  THEN TRUE
  ELSE \/ b.sourceChain = "fuji"
       \/ b.sourceChain \notin CONTRACTS
       \/ ~IsAddress(b.finalRecipient)

\* C11: with the store configured, POST /initiate with a body that is to be
\* refused (fuji or an unsupported sourceChain, a missing field, a malformed
\* finalRecipient) is answered 400, writes no record and launches no run.
C11_BadRequestIs400 ==
  [][\A b \in BODIES :
       (cfg.redis /\ RefusedBody(b) /\ InitiateReceive(b))
       => (runs' = Append(runs, Answered(400)) /\ store' = store)]_vars

\* C12: when the store or the relayer key is not configured, POST /initiate
\* (here with a body that is otherwise acceptable) is answered 503, writes no
\* record and launches no run, and no run ever finds the relayer key missing.
C12_MissingConfigIs503 ==
  /\ [][\A b \in BODIES :
          ((~cfg.redis \/ ~cfg.relayerKey) /\ ~RefusedBody(b) /\ InitiateReceive(b))
          => (runs' = Append(runs, Answered(503)) /\ store' = store)]_vars
  /\ [](\A r \in RunIds : runs[r].err # "Relayer not configured")

\* C13: the 200 of an accepted initiate is sent when the run has only been
\* launched (it has submitted no transaction and is at its first await), and
\* nothing the run does afterwards changes that reply.
C13_ReplyDoesNotWaitForRun ==
  [][\A r \in RunIds :
       /\ (runs[r].resp # 200 /\ runs'[r].resp = 200) =>
            /\ runs'[r].txs = <<>>
            /\ runs'[r].pc \in {"delay", "w_refuse"}
       /\ runs[r].resp = 200 => runs'[r].resp = 200]_vars

\* a request answered 200 whose run later threw out of executeBridge
C13_Witness ==
  \E r \in RunIds : runs[r].resp = 200 /\ runs[r].pc = "done" /\ runs[r].rejected

\* C14: a status query for the id of an accepted initiate, processed while
\* the run launched for it is still in its start delay and read from the
\* store without error, is answered 200 with status "initiated".
C14_StatusRightAfterInitiate ==
  [][\A r \in RunIds :
       (runs[r].resp = 200 /\ runs[r].pc = "delay"
        /\ GetStatus(runs[r].id) /\ lastResp'.code # 500)
       => (lastResp'.code = 200 /\ lastResp'.body.status = "initiated")]_vars

\* the reply the claim gives for a status query
StatusReply(param) ==
  IF param[1] # "bridge" THEN [code |-> 400]
  ELSE IF ~Exists(store, param) THEN [code |-> 404, id |-> param]
  ELSE [code |-> 200, id |-> param, body |-> store[param]]

\* C15 as stated: a status query is answered 400 when the id does not start
\* with "bridge:", 404 when the store holds no fields for the id, and
\* otherwise 200 with exactly the stored fields.
C15_StatusReply ==
  [][\A param \in PARAMS : GetStatus(param) => lastResp' = StatusReply(param)]_vars

\* C15 as amended: without a store every status query is answered 503; with
\* a store, a malformed id is answered 400 without a read, and a well-formed
\* one 500 when the read throws, else 404 when the store holds no fields for
\* the id, else 200 with exactly the stored fields.
C15_StatusReplyWithStoreErrors ==
  [][\A param \in PARAMS :
       GetStatus(param) =>
         IF ~cfg.redis THEN lastResp' = [code |-> 503]
         ELSE IF param[1] # "bridge" THEN lastResp' = [code |-> 400]
         ELSE lastResp' \in {[code |-> 500], StatusReply(param)}]_vars

\* a query for a key that has expired was answered 404
C15_Witness ==
  /\ lastResp.code = 404
  /\ \E r \in RunIds : runs[r].resp = 200 /\ runs[r].id = lastResp.id

\* of the error texts a run writes, the one that mentions a timeout
MentionsTimeout(e) == e = ATTESTATION_TIMEOUT_TEXT

\* C16: a run whose polling ended at the deadline has submitted no
\* receiveMessage and submits none; its next step is the write of failed with
\* an error that mentions the timeout, and when that write has landed the
\* record is failed and still holds the messageBytes and messageHash this run
\* wrote with polling_attestation.
C16_TimeoutFailsAndKeepsMessage ==
  [][\A r \in RunIds :
       /\ (runs[r].pc = "poll" /\ runs'[r].pc = "w_timeout") =>
            /\ ~Submitted(r, "receiveMessage")
            /\ runs'[r].txs = runs[r].txs
            /\ store' = store
       /\ (runs[r].pc = "w_timeout" /\ runs'[r] # runs[r]) =>
            /\ runs'[r].txs = runs[r].txs
            /\ runs'[r].pc \in {"done", "catch"}
            /\ runs'[r].pc = "done" =>
                 /\ StatusOf(store', runs[r].id) = "failed"
                 /\ MentionsTimeout(store'[runs[r].id].error)
                 /\ HasMessage(store', runs[r].id)
                 /\ store'[runs[r].id].messageBytes = runs[r].messageBytes
                 /\ store'[runs[r].id].messageHash = runs[r].messageHash]_vars

\* C17: a run whose burn receipt holds no MessageSent log of the message
\* transmitter never polls the oracle and submits no receiveMessage; its next
\* step is the write of failed with the error "Could not find MessageSent
\* event in burn receipt", and when that write has landed the record is
\* failed with exactly that error and holds no messageBytes and no
\* messageHash.
C17_NoMessageFails ==
  [][\A r \in RunIds :
       /\ (runs[r].pc = "w_message_sent" /\ ExtractMessage(runs[r].logs) = <<>>
           /\ runs'[r] # runs[r]) => runs'[r].pc \in {"w_nomessage", "catch"}
       /\ (runs[r].pc = "w_nomessage" /\ runs'[r] # runs[r]) =>
            /\ runs'[r].txs = runs[r].txs
            /\ runs'[r].pc \in {"done", "catch"}
            /\ runs'[r].pc = "done" =>
                 /\ StatusOf(store', runs[r].id) = "failed"
                 /\ store'[runs[r].id].error
                      = "Could not find MessageSent event in burn receipt"
                 /\ ~Has(store', runs[r].id, "messageBytes")
                 /\ ~Has(store', runs[r].id, "messageHash")]_vars

\* C19: a poll attempt whose fetch or JSON parse throws, like one whose reply
\* is not a completed attestation, only leads to the next attempt: a step of
\* pollAttestation never fails the run and writes nothing. An attempt that
\* reports "complete" with a non-empty attestation returns that attestation
\* at once, and null is returned only by the test of the deadline.
C19_PollErrorsAreNotFatal ==
  [][\A r \in RunIds :
       /\ runs[r].pc = "poll" =>
          \A reply \in ORACLE_REPLIES(HashForUrl(runs[r].messageHash)) :
            PollReply(r, reply) =>
              IF ~reply.throws /\ reply.status = "complete" /\ reply.attestation # <<>>
              THEN runs'[r].pc = "w_attestation"
                   /\ runs'[r].attestation = reply.attestation
              ELSE runs'[r].pc = "poll"
       /\ (runs[r].pc = "poll" /\ runs'[r] # runs[r]) =>
            /\ store' = store
            /\ runs'[r].txs = runs[r].txs
            /\ runs'[r].pc \in {"poll", "w_attestation", "w_timeout"}
            /\ runs'[r].pc = "w_timeout" => PollDeadline(r)]_vars

\* an attestation was returned after an attempt that did not yield one
C19_Witness ==
  \E r \in RunIds : runs[r].pc = "w_attestation" /\ runs[r].polls > 0

\* C18: when no call fails, the run launched by an accepted initiate
\* eventually leaves the record completed, with depositForBurnTx and
\* receiveMessageTx.
C18_SuccessLeadsToCompleted ==
  \A r \in 1..MaxReqs :
    (IF r \in RunIds THEN Launched(r) ELSE FALSE)
    ~> (IF r \in RunIds /\ runs[r].id \in AllIds
        THEN /\ Has(store, runs[r].id, "status")
             /\ StatusOf(store, runs[r].id) = "completed"
             /\ Has(store, runs[r].id, "depositForBurnTx")
             /\ Has(store, runs[r].id, "receiveMessageTx")
        ELSE FALSE)

\* C20: every key that holds fields has a time-to-live.
C20_EveryRecordExpires ==
  \A id \in AllIds : Exists(store, id) => ttl[id]

-----------------------------------------------------------------------------
(* C21 .. C30 *)

\* C21: in every reachable state, every record holds the field error exactly
\* when its status is failed, and the field completedAt exactly when its
\* status is completed.
C21_ErrorIffFailedCompletedAtIffCompleted ==
  \A id \in AllIds :
    Exists(store, id) =>
      /\ Has(store, id, "error") <=> StatusOf(store, id) = "failed"
      /\ Has(store, id, "completedAt") <=> StatusOf(store, id) = "completed"

\* run r reaches position p in this step
Entered(r, p) == runs'[r].pc = p /\ runs[r].pc # p
\* run r submits a transaction calling fn in this step
SubmitsNow(r, fn) ==
  /\ Len(runs'[r].txs) = Len(runs[r].txs) + 1
  /\ runs'[r].txs[Len(runs'[r].txs)].fn = fn
\* run r asks the oracle in this step
PollsNow(r) ==
  \/ runs'[r].polls > runs[r].polls
  \/ runs'[r].attestation # <<>> /\ runs'[r].attestation # runs[r].attestation

\* C22: within a run, an external action is started only after the store
\* has taken the status write that precedes it: approve is submitted only
\* from the position that is reached by the landed write of "approved",
\* depositForBurn only after the landed write of "deposited", the oracle is
\* asked only after the landed write of "polling_attestation" together with
\* the run's messageBytes and messageHash, and receiveMessage is submitted
\* only after the landed write of "attestation_received" together with the
\* run's attestation. (The status stored by a run that stops is thus the
\* last one it wrote.)
C22_ActionsFollowTheirStatusWrite ==
  [][\A r \in RunIds :
       LET id == runs[r].id IN
       /\ SubmitsNow(r, "approve") => runs[r].pc = "approve"
       /\ Entered(r, "approve") =>
            /\ runs[r].pc = "w_approved"
            /\ store' = HSet(store, id, [status |-> "approved"])
       /\ SubmitsNow(r, "depositForBurn") => runs[r].pc = "burn"
       /\ Entered(r, "burn") =>
            /\ runs[r].pc = "w_deposited"
            /\ store' = HSet(store, id, [status |-> "deposited"])
       /\ Entered(r, "poll") =>
            /\ runs[r].pc = "w_polling"
            /\ store' = HSet(store, id, [status |-> "polling_attestation",
                                         messageBytes |-> runs'[r].messageBytes,
                                         messageHash |-> runs'[r].messageHash])
       /\ PollsNow(r) => runs[r].pc = "poll"
       /\ SubmitsNow(r, "receiveMessage") => runs[r].pc = "receive"
       /\ Entered(r, "receive") =>
            /\ runs[r].pc = "w_attestation"
            /\ store' = HSet(store, id, [status |-> "attestation_received",
                                         attestation |-> runs'[r].attestation])]_vars

\* a run has submitted approve, depositForBurn and receiveMessage, each
\* after its status write
C22_Witness ==
  \E r \in RunIds :
    /\ runs[r].pc = "receive_wait"
    /\ Submitted(r, "approve") /\ Submitted(r, "depositForBurn")
    /\ Submitted(r, "receiveMessage")
    /\ StatusOf(store, runs[r].id) = "attestation_received"

\* the functions of the transactions a run has submitted, in order
TxNames(r) == [i \in 1..Len(runs[r].txs) |-> runs[r].txs[i].fn]
\* the attestations the oracle issues for a message
AttestationsOf(messageBytes) ==
  { ATT_OK(HashForUrl(Keccak256(messageBytes))),
    ATT_RAW(HashForUrl(Keccak256(messageBytes))) }

\* C23: within one run the steps happen strictly in order. depositForBurn is
\* submitted only after approve was submitted and its wait returned; polling
\* starts only after the wait for the burn returned and the message was
\* taken from its receipt; receiveMessage is submitted only after the oracle
\* returned an attestation for keccak256 of the run's messageBytes. The
\* transaction of receiveMessage goes to the message transmitter on Fuji and
\* carries exactly the run's messageBytes and that attestation.
C23_StepsInOrder ==
  [][\A r \in RunIds :
       /\ Entered(r, "w_deposited") => runs[r].pc = "approve_wait"
       /\ Entered(r, "burn") => runs[r].pc = "w_deposited"
       /\ SubmitsNow(r, "depositForBurn") =>
            runs[r].pc = "burn" /\ TxNames(r) = <<"approve">>
       /\ Entered(r, "w_message_sent") => runs[r].pc = "burn_wait"
       /\ Entered(r, "w_polling") =>
            /\ runs[r].pc = "w_message_sent"
            /\ runs'[r].messageBytes = ExtractMessage(runs[r].logs)
            /\ runs'[r].messageBytes # <<>>
            /\ runs'[r].messageHash = Keccak256(runs'[r].messageBytes)
       /\ Entered(r, "poll") => runs[r].pc = "w_polling"
       /\ PollsNow(r) => runs[r].pc = "poll" /\ TxNames(r) = <<"approve", "depositForBurn">>
       /\ Entered(r, "w_attestation") =>
            /\ runs[r].pc = "poll"
            /\ runs'[r].attestation \in AttestationsOf(runs[r].messageBytes)
       /\ Entered(r, "receive") => runs[r].pc = "w_attestation"
       /\ (runs[r].messageBytes # <<>> /\ runs'[r].pc # "done") =>
            runs'[r].messageBytes = runs[r].messageBytes
       /\ (runs[r].attestation # <<>> /\ runs'[r].pc # "done") =>
            runs'[r].attestation = runs[r].attestation
       /\ SubmitsNow(r, "receiveMessage") =>
            /\ runs[r].pc = "receive"
            /\ TxNames(r) = <<"approve", "depositForBurn">>
            /\ runs[r].attestation \in AttestationsOf(runs[r].messageBytes)
            /\ runs'[r].txs[3] = [chain |-> "fuji", to |-> MESSAGE_TRANSMITTER,
                                  fn |-> "receiveMessage",
                                  args |-> <<runs[r].messageBytes, runs[r].attestation>>]]_vars

\* a run whose receiveMessage, carrying the message of its own burn and the
\* attestation of that message, was confirmed
C23_Witness ==
  \E r \in RunIds :
    /\ runs[r].pc = "w_completed"
    /\ TxNames(r) = <<"approve", "depositForBurn", "receiveMessage">>
    /\ runs[r].txs[3].args = <<BurnMessage(r), ATT_OK(HashForUrl(Keccak256(BurnMessage(r))))>>

\* C24: runs are not serialized per chain and relay key: whenever a run is
\* about to submit approve, depositForBurn or receiveMessage the call can
\* start, whatever transactions of other runs are still unconfirmed on that
\* chain. (Two records on one source chain can therefore both have an
\* unconfirmed transaction of the relay key on it at the same time.)
C24_SubmissionsAreNotSerialized ==
  \A r \in RunIds :
    /\ runs[r].pc = "approve" => ENABLED RunApprove(r)
    /\ runs[r].pc = "burn" => ENABLED RunBurn(r)
    /\ runs[r].pc = "receive" => ENABLED RunReceive(r)

\* the runs of two records on the same source chain both have a submitted,
\* unconfirmed transaction on it
C24_Witness ==
  \E r, q \in RunIds :
    /\ runs[r].id # runs[q].id
    /\ Pending(r) /\ Pending(q)
    /\ PendingTx(r).chain = "sepolia" /\ PendingTx(q).chain = "sepolia"

\* the status a run wrote last before the wait it is in
StatusWhileWaiting(pc) ==
  CASE pc = "approve_wait" -> "approved"
    [] pc = "burn_wait" -> "deposited"
    [] pc = "receive_wait" -> "attestation_received"

\* C25 as stated: while a run waits for a chain confirmation, its record is
\* there with status approved, deposited or attestation_received
\* respectively, for as long as the wait lasts.
C25_RecordStaysWhileWaiting ==
  \A r \in RunIds :
    Pending(r) =>
      /\ Exists(store, runs[r].id)
      /\ StatusOf(store, runs[r].id) = StatusWhileWaiting(runs[r].pc)

\* C25, amended: a wait for a chain confirmation has no deadline. The only
\* step of a waiting run is the return (or the exception) of the wait
\* itself, and it writes nothing; until then the run never marks the record
\* failed. The record keeps the status written before the wait until its key
\* expires, which removes the record, unless a request with the same id
\* writes to it.
C25_WaitHasNoDeadline ==
  [][\A r \in RunIds :
       Pending(r) =>
         LET id == runs[r].id IN
         /\ runs'[r] # runs[r] =>
              /\ store' = store
              /\ runs'[r].txs = runs[r].txs
              /\ runs'[r].pc \in
                   { "catch",
                     CASE runs[r].pc = "approve_wait" -> "w_deposited"
                       [] runs[r].pc = "burn_wait" -> "w_message_sent"
                       [] runs[r].pc = "receive_wait" -> "w_completed" }
         /\ store'[id] # store[id] =>
              \/ KeyExpires(id)
              \/ \E q \in RunIds : q # r /\ runs[q].id = id /\ runs'[q] # runs[q]]_vars

\* a run still waits for the confirmation of its burn when the key of its
\* record has expired
C25_Witness ==
  \E r \in RunIds : runs[r].pc = "burn_wait" /\ ~Exists(store, runs[r].id)

\* the count of 10^-6 USDC units that a decimal amount stands for
MicroUsdc(amount) ==
  CASE amount = <<"2", "5", ".", "0", "0">> -> 25000000
    [] amount = <<"0", ".", "5">> -> 500000
    [] amount = <<"7">> -> 7000000
    [] amount = <<"1", ".", "2", "3", "4", "5", "6", "7">> -> 1234567

\* a 20-byte address left-padded with zero bytes to 32 bytes
IsLeftPadded(word, address) ==
  /\ Len(word) = 66 /\ StartsWith0x(word)
  /\ \A i \in 3..26 : word[i] = "0"
  /\ SubSeq(word, 27, 66) = SubSeq(address, 3, 42)

\* C26: the amount a run uses on chain is the decimal string of the record
\* it read, as an integer count of 10^-6 USDC ("25.00" gives 25000000);
\* approve and depositForBurn carry that same integer; the mintRecipient of
\* the burn is the record's finalRecipient left-padded with zeros to 32
\* bytes, its destination domain is 1 (Fuji) and its burn token the USDC
\* address of the record's source chain.
C26_AmountAndBurnArguments ==
  [][\A r \in RunIds :
       LET data == store[runs[r].id] IN
       /\ Entered(r, "w_approved") =>
            /\ runs'[r].amountWei = MicroUsdc(data.amount)
            /\ IsLeftPadded(runs'[r].mintRecipient, data.finalRecipient)
            /\ runs'[r].sourceChain = data.sourceChain
       /\ (runs[r].amountWei # -1 /\ runs'[r].pc # "done") =>
            /\ runs'[r].amountWei = runs[r].amountWei
            /\ runs'[r].mintRecipient = runs[r].mintRecipient
            /\ runs'[r].sourceChain = runs[r].sourceChain
       /\ SubmitsNow(r, "approve") =>
            runs'[r].txs[1] =
              [chain |-> runs[r].sourceChain, to |-> USDC_ADDRESSES[runs[r].sourceChain],
               fn |-> "approve", args |-> <<TOKEN_MESSENGER, runs[r].amountWei>>]
       /\ SubmitsNow(r, "depositForBurn") =>
            /\ runs'[r].txs[2].chain = runs[r].sourceChain
            /\ runs'[r].txs[2].to = TOKEN_MESSENGER
            /\ runs'[r].txs[2].args =
                 <<runs[r].txs[1].args[2], 1, runs[r].mintRecipient,
                   USDC_ADDRESSES[runs[r].sourceChain]>>
            /\ runs[r].txs[1].args[2] = runs[r].amountWei]_vars

\* a burn of 1.234567 USDC was submitted with 1234567 units
C26_Witness ==
  \E r \in RunIds :
    /\ Submitted(r, "depositForBurn")
    /\ runs[r].txs[2].args[1] = 1234567
    /\ IsLeftPadded(runs[r].txs[2].args[3], ADDR1)

\* the payload of the first log that the message transmitter emitted and
\* that decodes as MessageSent; <<>> when the receipt holds none
RECURSIVE FirstTransmitterMessage(_)
FirstTransmitterMessage(logs) ==
  IF logs = <<>> THEN <<>>
  ELSE IF /\ Head(logs).address # ""
          /\ ToLowerCase(Head(logs).address) = ToLowerCase(MESSAGE_TRANSMITTER)
          /\ Head(logs).event = "MessageSent"
       THEN Head(logs).message
       ELSE FirstTransmitterMessage(Tail(logs))

\* C27: messageBytes is the payload of the first log of the burn receipt
\* that the message transmitter emitted (addresses compared without regard
\* to case) and that decodes as MessageSent; a log of another emitter, or
\* one that carries no emitter address, is never its source; a receipt
\* without such a log yields no message; messageHash is keccak256 of
\* messageBytes.
C27_MessageComesFromTransmitterLog ==
  [][\A r \in RunIds :
       runs[r].pc = "w_message_sent" =>
         /\ Entered(r, "w_polling") =>
              /\ runs'[r].messageBytes = FirstTransmitterMessage(runs[r].logs)
              /\ runs'[r].messageHash = Keccak256(runs'[r].messageBytes)
         /\ Entered(r, "w_nomessage") =>
              FirstTransmitterMessage(runs[r].logs) = <<>>]_vars

\* the record lacks one of the three bridge params
LacksParams(data) ==
  \/ "sourceChain" \notin DOMAIN data
  \/ "amount" \notin DOMAIN data
  \/ "finalRecipient" \notin DOMAIN data

\* C28: a run that reads a record lacking sourceChain, amount or
\* finalRecipient goes on to one write only, of status failed with error
\* "Missing bridge params", and submits no chain transaction; a run writes
\* status approved only after it read a record that holds all three, with a
\* source chain that has an entry in CONTRACTS and in USDC_ADDRESSES.
C28_MissingParamsAreRefused ==
  [][\A r \in RunIds :
       LET id == runs[r].id IN
       /\ (runs[r].pc = "delay" /\ runs'[r].pc \notin {"delay", "done"}
           /\ Exists(store, id) /\ LacksParams(store[id])) =>
            /\ runs'[r].pc = "w_refuse"
            /\ runs'[r].err = "Missing bridge params"
       /\ (runs[r].pc = "w_refuse" /\ runs'[r] # runs[r]) =>
            /\ runs'[r].pc = "done"
            /\ runs'[r].txs = <<>>
            /\ store' \in {store, HSet(store, id, [status |-> "failed",
                                                   error |-> runs[r].err])}
       /\ Entered(r, "w_approved") =>
            /\ runs[r].pc = "delay"
            /\ ~LacksParams(store[id])
            /\ store[id].sourceChain \in CONTRACTS
            /\ store[id].sourceChain \in DOMAIN USDC_ADDRESSES
       /\ (runs'[r] # runs[r] /\ store'[id] # store[id]
           /\ StatusOf(store', id) = "approved") =>
            runs[r].pc = "w_approved"]_vars

\* a record that a run found without its bridge params and marked failed
C28_Witness ==
  \E id \in AllIds :
    /\ Has(store, id, "error") /\ store[id].error = "Missing bridge params"
    /\ StatusOf(store, id) = "failed"
    /\ LacksParams(store[id])

\* the fields written by POST /initiate, and those a run writes on its way
IntakeFields ==
  {"sourceChain", "paymentTxHash", "amount", "finalRecipient", "purpose", "createdAt"}
StepFields == {"depositForBurnTx", "messageBytes", "messageHash", "attestation"}

\* C29: writes are partial field merges: no step changes or removes a field
\* that POST /initiate wrote (sourceChain, paymentTxHash, amount,
\* finalRecipient, purpose, createdAt), so these keep their initial values,
\* and no step changes or removes depositForBurnTx, messageBytes,
\* messageHash or attestation once written, the write of failed included.
C29_WrittenFieldsAreKept ==
  [][\A id \in AllIds : \A f \in IntakeFields \cup StepFields :
       Has(store, id, f) => Has(store', id, f) /\ store'[id][f] = store[id][f]]_vars

\* C30: a POST /initiate that was answered 500 because its initial field
\* write or its expiry call failed has no lasting effect: no run was launched
\* for it and the store holds no record under the id of that request.
C30_FailedInitiateLeavesNothing ==
  \A r \in RunIds :
    runs[r].resp = 500 =>
      /\ runs[r].pc = "done" /\ runs[r].txs = <<>>
      /\ ~Exists(store, runs[r].id)

====
